---------------------------- MODULE Spec2Model ----------------------------
(***************************************************************************)
(* Model of the C-rs lexical front end (src/lexer.rs) and of the dynamic   *)
(* value operators (src/types/value.rs).                                   *)
(*                                                                         *)
(* Code points are modelled as short strings.  ASCII code points stand for *)
(* themselves; "NL" is '\n', "TAB" is '\t', "BSLASH" is '\\', "DQ" is '"', *)
(* "SQ" is '\'', "BT" is '`'.  Non-ASCII code points are named:            *)
(*   "LAQUO" U+00AB, "RAQUO" U+00BB, "LOW9" U+201E, "LDQUO" U+201C,        *)
(*   "POUND" U+00A3, "YEN" U+00A5, "EURO" U+20AC, "EN" U+5186,             *)
(*   "RUBLE" U+20BD, "EACUTE" U+00E9.                                      *)
(***************************************************************************)
EXTENDS Integers, Sequences, FiniteSets, TLC

VARIABLES
    source,          \* tokenize: the `source` argument (never changes)
    chars,           \* tokenize: the code points the Peekable has not yielded yet
    token_stream,    \* tokenize: the Vec<Token> built so far
    pc,              \* "idle" | "run" | "ok" | "err" | "panic"
    overflow_checks, \* build profile: TRUE = overflow checks on (debug), FALSE = wrapping (release)
    lhs,             \* Value operators: left operand / self
    rhs,             \* Value operators: right operand
    precision,       \* Value::eq: the precision argument
    vop,             \* the Value operator applied ("none" before any)
    result           \* the Value returned, or Panic

vars == <<source, chars, token_stream, pc, overflow_checks, lhs, rhs, precision, vop, result>>

lexvars == <<source, chars, token_stream, pc, overflow_checks>>

valvars == <<lhs, rhs, precision, vop, result>>

-----------------------------------------------------------------------------
(* Bounds of the model *)

\* longest top-level input (code points)
MaxLen == 4

\* longest string-literal body after a '"' opener, over BodyAlphabet
MaxBody == 5

\* longest string-literal body after any opener, over the full FullBodyAlphabet
ShortBody == 2

\* longest run of one run-length operator character
MaxRun == 257

-----------------------------------------------------------------------------
(* Sequences of length at most n over S *)

SeqUpTo(S, n) == UNION {[1..k -> S] : k \in 0..n}

\* n copies of the code point c
Run(c, n) == [i \in 1..n |-> c]

-----------------------------------------------------------------------------
(* Tokens and string segments *)

Tok(t, n, text, segs) == [t |-> t, n |-> n, text |-> text, segs |-> segs]

Simple(t) == Tok(t, 0, <<>>, <<>>)

TokString(segs) == Tok("String", 0, <<>>, segs)

TokIdent(text) == Tok("Ident", 0, text, <<>>)

SegString(text) == [k |-> "String", a |-> text, b |-> <<>>]

SegIdent(text) == [k |-> "Ident", a |-> text, b |-> <<>>]

SegEscudo(l, r) == [k |-> "Escudo", a |-> l, b |-> r]

\* SResult<Option<Token>> together with the iterator state left behind
Res(st, tok, rest) == [st |-> st, tok |-> tok, rest |-> rest]

NoTok == Simple("None")

-----------------------------------------------------------------------------
(* Character classes *)

\* char::is_whitespace, on the code points of the model
is_whitespace(c) == c \in {" ", "NL", "TAB"}

PrefixCurrency == {"$", "POUND", "YEN"}

PostfixCurrency == {"EURO", "EN", "RUBLE"}

Punct ==
    [c \in {"{", "}", "(", ")", "[", "]", ";", ":", ".", ",", "&", "|"} |->
        CASE c = "{" -> "LSquirrely"
          [] c = "}" -> "RSquirrely"
          [] c = "(" -> "LParen"
          [] c = ")" -> "RParen"
          [] c = "[" -> "LSquare"
          [] c = "]" -> "RSquare"
          [] c = ";" -> "Semicolon"
          [] c = ":" -> "Colon"
          [] c = "." -> "Dot"
          [] c = "," -> "Comma"
          [] c = "&" -> "And"
          [] c = "|" -> "Or"]

\* the closing delimiter inner_tokenize passes to lex_string for each opener
Closer ==
    [c \in {"DQ", "SQ", "BT", "LAQUO", "RAQUO", "LOW9"} |->
        CASE c = "DQ" -> "DQ"
          [] c = "SQ" -> "SQ"
          [] c = "BT" -> "BT"
          [] c = "LAQUO" -> "RAQUO"
          [] c = "RAQUO" -> "LAQUO"
          [] c = "LOW9" -> "LDQUO"]

Openers == DOMAIN Closer

CountChars == {"=", "!", "?"}

CountTok == [c \in CountChars |-> CASE c = "=" -> "Equal" [] c = "!" -> "Bang" [] c = "?" -> "Question"]

MultiChars == {"+", "-", "*", "/", "%", "<", ">"}

\* weight a peeked '\n' adds to whitespace_count
NewlineWeight == 3

\* largest value of the u8 counter of count_char
U8Max == 255

-----------------------------------------------------------------------------
(* multi_character_pattern!: one code point of lookahead *)

multi_character_pattern(cs, just, alts) ==
    IF cs # <<>> /\ Head(cs) \in DOMAIN alts
    THEN Res("ok", Simple(alts[Head(cs)]), Tail(cs))
    ELSE Res("ok", Simple(just), cs)

MultiAlts(c) ==
    CASE c = "+" -> ("=" :> "PlusEq") @@ ("+" :> "PlusPlus")
      [] c = "-" -> ("=" :> "TackEq") @@ (">" :> "Arrow") @@ ("-" :> "TackTack")
      [] c = "*" -> ("=" :> "StarEq")
      [] c = "/" -> ("=" :> "SlashEq")
      [] c = "%" -> ("=" :> "PercentEq")
      [] c = "<" -> ("=" :> "LCaretEq")
      [] c = ">" -> ("=" :> "RCaretEq")

MultiJust(c) ==
    CASE c = "+" -> "Plus"
      [] c = "-" -> "Tack"
      [] c = "*" -> "Star"
      [] c = "/" -> "Slash"
      [] c = "%" -> "Percent"
      [] c = "<" -> "LCaret"
      [] c = ">" -> "RCaret"

-----------------------------------------------------------------------------
(* lex_string *)

\* `for next in chars.by_ref() { if next == '}' { break; } buf.push(next); }`
RECURSIVE scan_to_rbrace(_, _)
scan_to_rbrace(cs, buf) ==
    IF cs = <<>> THEN [found |-> FALSE, buf |-> buf, rest |-> <<>>]
    ELSE IF Head(cs) = "}" THEN [found |-> TRUE, buf |-> buf, rest |-> Tail(cs)]
    ELSE scan_to_rbrace(Tail(cs), Append(buf, Head(cs)))

\* str::split(sep): every piece between separators, empty pieces included
RECURSIVE split(_, _, _)
split(s, sep, cur) ==
    IF s = <<>> THEN <<cur>>
    ELSE IF Head(s) = sep THEN <<cur>> \o split(Tail(s), sep, <<>>)
    ELSE split(Tail(s), sep, Append(cur, Head(s)))

contains(s, c) == \E i \in 1..Len(s) : s[i] = c

\* `if !string_buf.is_empty() { outer_buf.push(StringSegment::String(take(string_buf))) }`
flush(outer_buf, string_buf) ==
    IF string_buf # <<>> THEN Append(outer_buf, SegString(string_buf)) ELSE outer_buf

\* the Escudo branch of lex_string (lines 69-71): what it leaves in (outer_buf, string_buf)
escudo_push(outer_buf, string_buf, ident_buf) ==
    LET bits == split(ident_buf, "$", <<>>)
    IN  [outer |-> Append(outer_buf, SegEscudo(bits[1], bits[2])), sbuf |-> string_buf]

RECURSIVE lex_string_loop(_, _, _, _)
lex_string_loop(cs, end, outer_buf, string_buf) ==
    IF cs = <<>> THEN Res("ok", TokString(flush(outer_buf, string_buf)), <<>>)
    ELSE
    LET next == Head(cs)
        rest == Tail(cs)
    IN  IF next = end THEN Res("ok", TokString(flush(outer_buf, string_buf)), rest)
        ELSE IF next \in PrefixCurrency /\ rest # <<>> /\ Head(rest) = "{" THEN
            LET sc == scan_to_rbrace(Tail(rest), <<>>)
                flushed == flush(outer_buf, string_buf)
            IN  IF sc.found
                THEN lex_string_loop(sc.rest, end,
                        IF sc.buf # <<>> THEN Append(flushed, SegIdent(sc.buf)) ELSE flushed,
                        <<>>)
                ELSE lex_string_loop(sc.rest, end, flushed, sc.buf)
        ELSE IF next = "{" THEN
            LET sc == scan_to_rbrace(rest, <<>>)
                ident_buf == sc.buf
            IN  IF sc.rest # <<>> /\ Head(sc.rest) \in PostfixCurrency
                THEN lex_string_loop(Tail(sc.rest), end,
                        Append(flush(outer_buf, string_buf), SegIdent(ident_buf)), <<>>)
                ELSE IF contains(ident_buf, "$")
                THEN LET e == escudo_push(outer_buf, string_buf, ident_buf)
                     IN  lex_string_loop(sc.rest, end, e.outer, e.sbuf)
                ELSE lex_string_loop(sc.rest, end, outer_buf,
                        string_buf \o <<"{">> \o ident_buf \o <<"}">>)
        ELSE IF next = "BSLASH" THEN
            IF rest = <<>>
            THEN Res("err", NoTok, <<>>)
            ELSE lex_string_loop(Tail(rest), end, outer_buf, string_buf \o <<next, Head(rest)>>)
        ELSE lex_string_loop(rest, end, outer_buf, Append(string_buf, next))

lex_string(cs, end) == lex_string_loop(cs, end, <<>>, <<>>)

-----------------------------------------------------------------------------
(* count_char: `let mut count = 1` is a u8 (typ: Fn(u8) -> Token).  `count += 1` *)
(* at 255 panics when the build checks overflow and wraps to 0 when it does not. *)

\* how many times `chars.peek() == Some(&tok)` can succeed in a row
leading(cs, tok) ==
    CHOOSE k \in 0..Len(cs) :
        /\ \A i \in 1..k : cs[i] = tok
        /\ (k = Len(cs) \/ cs[k + 1] # tok)

\* `while chars.peek() == Some(&tok) { chars.next(); count += 1; }` from count = 1:
\* k = leading(cs, tok) increments fit the u8 while 1 + k <= U8Max; the increment
\* at U8Max comes after the `chars.next()` of the same iteration
count_loop(cs, tok) ==
    LET k == leading(cs, tok)
    IN  IF 1 + k <= U8Max
        THEN [st |-> "ok", count |-> 1 + k, rest |-> SubSeq(cs, k + 1, Len(cs))]
        ELSE IF overflow_checks
        THEN [st |-> "panic", count |-> U8Max, rest |-> SubSeq(cs, U8Max + 1, Len(cs))]
        ELSE [st |-> "ok", count |-> (1 + k) % (U8Max + 1), rest |-> SubSeq(cs, k + 1, Len(cs))]

count_char(cs, tok, typ) ==
    LET r == count_loop(cs, tok)
    IN  Res(r.st, IF r.st = "ok" THEN Tok(typ, r.count, <<>>, <<>>) ELSE NoTok, r.rest)

-----------------------------------------------------------------------------
(* The whitespace arm of inner_tokenize (lines 145-159).  The width of the Space *)
(* counter is declared with Token, outside lexer.rs; the bounded inputs keep the *)
(* weight far below any integer width.                                           *)

RECURSIVE space_loop(_, _)
space_loop(cs, whitespace_count) ==
    IF cs # <<>> /\ is_whitespace(Head(cs))
    THEN space_loop(Tail(cs),
            whitespace_count + (IF Head(cs) = "NL" THEN NewlineWeight ELSE 1))
    ELSE Res("ok", Tok("Space", whitespace_count, <<>>, <<>>), cs)

lex_space(cs) == space_loop(cs, 1)

-----------------------------------------------------------------------------
(* inner_tokenize.  cs is the iterator before `chars.next()`. *)

RECURSIVE inner_tokenize(_)
RECURSIVE lex_ident(_, _)

\* mutation of next_char: `chars.peek()` in place of `chars.next()`
next_char_peek(cs) == [char |-> Head(cs), rest |-> cs]

\* `let Some(char) = chars.next()` (line 108), on a non-empty iterator
next_char(cs) == [char |-> Head(cs), rest |-> Tail(cs)]

\* the identifier arm (lines 161-171): each following code point is re-dispatched
\* through inner_tokenize on a one-element iterator
lex_ident(cs, ident_buf) ==
    IF cs = <<>> THEN Res("ok", TokIdent(ident_buf), cs)
    ELSE LET r == inner_tokenize(<<Head(cs)>>)
         IN  IF r.st = "ok" /\ r.tok.t = "Ident"
             THEN lex_ident(Tail(cs), ident_buf \o r.tok.text)
             ELSE Res("ok", TokIdent(ident_buf), cs)

inner_tokenize(cs) ==
    IF cs = <<>> THEN Res("err", NoTok, <<>>)
    ELSE
    LET char == next_char(cs).char
        rest == next_char(cs).rest
    IN  CASE char \in DOMAIN Punct -> Res("ok", Simple(Punct[char]), rest)
          [] char \in MultiChars -> multi_character_pattern(rest, MultiJust(char), MultiAlts(char))
          [] char \in Openers -> lex_string(rest, Closer[char])
          [] char \in CountChars -> count_char(rest, char, CountTok[char])
          [] OTHER -> IF is_whitespace(char) THEN lex_space(rest)
                      ELSE lex_ident(rest, <<char>>)

-----------------------------------------------------------------------------
(* tokenize: one action per iteration of `while chars.peek().is_some()`, split *)
(* by the arm of inner_tokenize the first code point selects.                  *)

TopAlphabet == {" ", "NL", "a", "=", "+", "-", ">", ";"}

BodyAlphabet == {"a", "$", "{", "}", "EURO", "DQ"}

FullBodyAlphabet == {"a", "b", " ", "$", "POUND", "YEN", "{", "}", "EURO", "EN", "RUBLE", "BSLASH"}

AllChars ==
    TopAlphabet \cup BodyAlphabet \cup FullBodyAlphabet \cup DOMAIN Punct \cup MultiChars
        \cup Openers \cup CountChars \cup {"LDQUO", "TAB", "EACUTE"}

Whitespace == {c \in AllChars : is_whitespace(c)}

IdentStart ==
    {c \in AllChars : c \notin DOMAIN Punct \cup MultiChars \cup Openers \cup CountChars
                      /\ ~is_whitespace(c)}

\* `if let Some(tok) = inner_tokenize(&mut chars)? { token_stream.push(tok); }`
pushed(stream, r) == IF r.st = "ok" THEN Append(stream, r.tok) ELSE stream

\* the `?`: an Err (or a panic) leaves the loop
after(r) == IF r.st = "ok" THEN "run" ELSE r.st

LexPunct ==
    /\ pc = "run"
    /\ chars # <<>>
    /\ Head(chars) \in DOMAIN Punct
    /\ LET r == inner_tokenize(chars)
       IN  /\ chars' = r.rest
           /\ pc' = after(r)
           /\ token_stream' = pushed(token_stream, r)
    /\ UNCHANGED <<source, overflow_checks, valvars>>

LexMulti ==
    /\ pc = "run"
    /\ chars # <<>>
    /\ Head(chars) \in MultiChars
    /\ LET r == inner_tokenize(chars)
       IN  /\ chars' = r.rest
           /\ pc' = after(r)
           /\ token_stream' = pushed(token_stream, r)
    /\ UNCHANGED <<source, overflow_checks, valvars>>

LexString ==
    /\ pc = "run"
    /\ chars # <<>>
    /\ Head(chars) \in Openers
    /\ LET r == inner_tokenize(chars)
       IN  /\ chars' = r.rest
           /\ pc' = after(r)
           /\ token_stream' = pushed(token_stream, r)
    /\ UNCHANGED <<source, overflow_checks, valvars>>

LexCount ==
    /\ pc = "run"
    /\ chars # <<>>
    /\ Head(chars) \in CountChars
    /\ LET r == inner_tokenize(chars)
       IN  /\ chars' = r.rest
           /\ pc' = after(r)
           /\ token_stream' = pushed(token_stream, r)
    /\ UNCHANGED <<source, overflow_checks, valvars>>

LexSpace ==
    /\ pc = "run"
    /\ chars # <<>>
    /\ Head(chars) \in Whitespace
    /\ LET r == inner_tokenize(chars)
       IN  /\ chars' = r.rest
           /\ pc' = after(r)
           /\ token_stream' = pushed(token_stream, r)
    /\ UNCHANGED <<source, overflow_checks, valvars>>

LexIdent ==
    /\ pc = "run"
    /\ chars # <<>>
    /\ Head(chars) \in IdentStart
    /\ LET r == inner_tokenize(chars)
       IN  /\ chars' = r.rest
           /\ pc' = after(r)
           /\ token_stream' = pushed(token_stream, r)
    /\ UNCHANGED <<source, overflow_checks, valvars>>

\* the loop condition fails: `Ok(token_stream)`
Return ==
    /\ pc = "run"
    /\ chars = <<>>
    /\ pc' = "ok"
    /\ UNCHANGED <<source, chars, token_stream, overflow_checks, valvars>>

Inputs ==
    SeqUpTo(TopAlphabet, MaxLen)
      \cup {<<"DQ">> \o b : b \in SeqUpTo(BodyAlphabet, MaxBody)}
      \cup UNION {{<<o>> \o b : b \in SeqUpTo(FullBodyAlphabet \cup {Closer[o]}, ShortBody)} :
                     o \in Openers}
      \cup {Run(c, n) : c \in CountChars, n \in 1..MaxRun}

NoValue == [k |-> "None"]

InitLex ==
    /\ source \in Inputs
    /\ chars = source
    /\ token_stream = <<>>
    /\ pc = "run"
    /\ overflow_checks \in BOOLEAN
    /\ lhs = NoValue
    /\ rhs = NoValue
    /\ precision = 0
    /\ vop = "none"
    /\ result = NoValue

NextLex == LexPunct \/ LexMulti \/ LexString \/ LexCount \/ LexSpace \/ LexIdent \/ Return

SpecLex == InitLex /\ [][NextLex]_vars

-----------------------------------------------------------------------------
(* Properties of the tokenizer *)

Last(s) == s[Len(s)]

IsProperSuffix(a, b) == Len(a) < Len(b) /\ a = SubSeq(b, Len(b) - Len(a) + 1, Len(b))

\* C1: an input that opens a string literal and ends before the matching
\* terminator is a LexError, never an Ok token stream.
C1_UnterminatedStringIsError ==
    (/\ source # <<>>
     /\ Head(source) \in Openers
     /\ ~contains(Tail(source), Closer[Head(source)]))
    => pc # "ok"

\* expected weights of the maximal whitespace runs of s, in order: 3 for each
\* newline and 1 for each other whitespace code point (cur: the open run's weight)
RECURSIVE run_weights(_, _)
run_weights(s, cur) ==
    IF s = <<>> THEN (IF cur > 0 THEN <<cur>> ELSE <<>>)
    ELSE IF is_whitespace(Head(s))
         THEN run_weights(Tail(s), cur + (IF Head(s) = "NL" THEN 3 ELSE 1))
         ELSE (IF cur > 0 THEN <<cur>> ELSE <<>>) \o run_weights(Tail(s), 0)

IsSpace(t) == t.t = "Space"

space_weights(stream) ==
    LET sp == SelectSeq(stream, IsSpace) IN [i \in 1..Len(sp) |-> sp[i].n]

OutsideStrings(s) == \A i \in 1..Len(s) : s[i] \notin Openers

\* C2: every maximal whitespace run outside string literals gives exactly one
\* Space token whose weight is 3 per newline plus 1 per other whitespace code
\* point, wherever the newlines stand in the run.
C2_SpaceWeight ==
    (pc = "ok" /\ OutsideStrings(source) /\ \E i \in 1..Len(source) : is_whitespace(source[i]))
    => space_weights(token_stream) = run_weights(source, 0)

IsRun(s) == s # <<>> /\ Head(s) \in CountChars /\ \A i \in 1..Len(s) : s[i] = s[1]

\* C3: n consecutive '=' ('!', '?') give exactly one Equal (Bang, Question)
\* token carrying n, also for n > 255.
C3_RunLengthCount ==
    (IsRun(source) /\ pc # "run")
    => (pc = "ok" /\ token_stream = <<Tok(CountTok[source[1]], Len(source), <<>>, <<>>)>>)

\* a source that is one terminated "..." literal and nothing else
OneLiteral(s) ==
    /\ Len(s) >= 2
    /\ s[1] = "DQ"
    /\ Last(s) = "DQ"
    /\ \A i \in 2..(Len(s) - 1) : s[i] # "DQ"

\* every '{' has a '}' after it
BracesClosed(s) ==
    \A i \in 1..Len(s) : s[i] = "{" => \E j \in (i + 1)..Len(s) : s[j] = "}"

\* C4: segments are in source order: literal text that opens a string body is
\* the first segment, before the segment of any interpolation form after it.
C4_SegmentsInSourceOrder ==
    (pc = "ok" /\ OneLiteral(source) /\ source[2] = "a" /\ BracesClosed(source))
    => LET segs == token_stream[1].segs
       IN  segs[1].k = "String" /\ segs[1].a[1] = "a"

first_index(s, c) == CHOOSE i \in 1..Len(s) : s[i] = c /\ \A j \in 1..(i - 1) : s[j] # c

\* a source that is the literal "{cand}" with a '$' in cand and no '}' in it
OneBraceCandidate(s) ==
    /\ OneLiteral(s)
    /\ Len(s) >= 5
    /\ s[2] = "{"
    /\ s[Len(s) - 1] = "}"
    /\ LET cand == SubSeq(s, 3, Len(s) - 2)
       IN  contains(cand, "$") /\ ~contains(cand, "}")

\* C5: a bare {cand} with no trailing currency marker and a '$' inside is
\* Escudo(left, right): left the text before the first '$', right all the text
\* after it.
C5_EscudoSplitsOnce ==
    (pc = "ok" /\ OneBraceCandidate(source))
    => LET cand == SubSeq(source, 3, Len(source) - 2)
           i == first_index(cand, "$")
       IN  token_stream =
             <<TokString(<<SegEscudo(SubSeq(cand, 1, i - 1), SubSeq(cand, i + 1, Len(cand)))>>)>>

\* C9: every iteration of the main loop removes at least one code point and
\* never puts one back (the remaining input is a proper suffix of what it was);
\* the iterations run, one token each, never outnumber the code points consumed,
\* so the loop ends within Len(source) iterations; and tokenize returns Ok only
\* with no code point left.
C9_ConsumesAndTerminates ==
    /\ [][IsProperSuffix(chars', chars) \/ (chars = <<>> /\ chars' = <<>> /\ pc' = "ok")]_vars
    /\ [](Len(token_stream) + Len(chars) <= Len(source))
    /\ [](pc = "ok" => chars = <<>>)

C9_Witness == pc = "ok" /\ Len(source) >= 3 /\ Len(token_stream) >= 2 /\ chars = <<>>

-----------------------------------------------------------------------------
(* Value (src/types/value.rs).  A String is its sequence of code points; a     *)
(* Number is a sign and a magnitude num/den in lowest terms (the sign is kept  *)
(* on zero, as f64 keeps it); the inputs are finite and dyadic, which f64      *)
(* represents exactly.  An Object is its entries in key order, each a pair     *)
(* <<key, value behind the Pointer>>.  A Function is its parameter names; its  *)
(* Syntax body is opaque.  Panic is not a Value: it marks an operator that     *)
(* panicked instead of returning.                                              *)

\* longest String operand over StrAlphabet
MaxStr == 3

VBool(b) == [k |-> "Boolean", b |-> b]

VString(str) == [k |-> "String", s |-> str]

RECURSIVE gcd(_, _)
gcd(a, b) == IF b = 0 THEN a ELSE gcd(b, a % b)

\* an f64 from a sign and a magnitude n/d, d > 0
VNumber(neg, n, d) ==
    LET g == IF n = 0 THEN d ELSE gcd(n, d)
    IN  [k |-> "Number", neg |-> neg, num |-> n \div g, den |-> d \div g]

VObject(entries) == [k |-> "Object", m |-> entries]

VFunction(args) == [k |-> "Function", args |-> args]

VKeyword(w) == [k |-> "Keyword", w |-> w]

Panic == [k |-> "Panic"]

\* Value::default / Value::empty_object
default == VObject(<<>>)

\* From<bool> for Value
from_bool(c) == VBool(IF c THEN "True" ELSE "False")

Keywords == {"Const", "Delete", "Eval", "Function", "If", "Var"}

-----------------------------------------------------------------------------
(* f64 arithmetic on the modelled Numbers *)

\* the numerator with its sign, over the denominator x.den
signed(x) == IF x.neg THEN 0 - x.num ELSE x.num

abs_int(i) == IF i < 0 THEN 0 - i ELSE i

fadd(x, y) ==
    LET t == signed(x) * y.den + signed(y) * x.den
    IN  VNumber(IF t = 0 THEN x.neg /\ y.neg ELSE t < 0, abs_int(t), x.den * y.den)

fneg(x) == VNumber(~x.neg, x.num, x.den)

fsub(x, y) == fadd(x, fneg(y))

fmul(x, y) == VNumber(x.neg # y.neg, x.num * y.num, x.den * y.den)

\* y is not zero
fdiv(x, y) == VNumber(x.neg # y.neg, x.num * y.den, x.den * y.num)

\* f64 `%` (fmod): the remainder of the truncated quotient, with the sign of x; y is not zero
frem(x, y) ==
    LET a == x.num * y.den
        b == y.num * x.den
    IN  VNumber(x.neg, a % b, x.den * y.den)

is_zero(x) == x.num = 0

\* x == y on f64: +0.0 and -0.0 are equal
feq(x, y) == (is_zero(x) /\ is_zero(y)) \/ (x.neg = y.neg /\ x.num = y.num /\ x.den = y.den)

\* e^0.1 = 1.105170918... and e^-0.1 = 0.904837418..., scaled by LnScale and cut to
\* an integer (the products below stay within 32 bits)
LnScale == 100000

ExpTenthUp == 110517

ExpTenthDown == 90483

\* (x / y).ln().abs() < 0.1: the ratio is positive and finite, and within e^(+-0.1)
ln_ratio_small(x, y) ==
    /\ ~is_zero(x)
    /\ ~is_zero(y)
    /\ x.neg = y.neg
    /\ x.num * y.den * LnScale <= ExpTenthUp * x.den * y.num
    /\ x.num * y.den * LnScale > ExpTenthDown * x.den * y.num

-----------------------------------------------------------------------------
(* Display for Value, Boolean and Keyword; text is a sequence of code points *)

bool_text(b) ==
    CASE b = "True" -> <<"t", "r", "u", "e">>
      [] b = "False" -> <<"f", "a", "l", "s", "e">>
      [] b = "Maybe" -> <<"m", "a", "y", "b", "e">>

keyword_text(w) ==
    CASE w = "Const" -> <<"c", "o", "n", "s", "t">>
      [] w = "Var" -> <<"v", "a", "r">>
      [] w = "Delete" -> <<"d", "e", "l", "e", "t", "e">>
      [] w = "Function" -> <<"f", "u", "n", "c", "t", "i", "o", "n">>
      [] w = "If" -> <<"i", "f">>
      [] w = "Eval" -> <<"e", "v", "a", "l">>

Digit == <<"0", "1", "2", "3", "4", "5", "6", "7", "8", "9">>

RECURSIVE nat_text(_)
nat_text(n) == IF n < 10 THEN <<Digit[n + 1]>> ELSE Append(nat_text(n \div 10), Digit[(n % 10) + 1])

\* the decimal digits of r/d, 0 <= r < d, for a d whose only prime factors are 2 and 5
RECURSIVE frac_text(_, _)
frac_text(r, d) ==
    IF r = 0 THEN <<>> ELSE <<Digit[((r * 10) \div d) + 1]>> \o frac_text((r * 10) % d, d)

\* `{num}` for an f64: "-0" for -0.0, no fraction for a whole number
number_text(x) ==
    (IF x.neg THEN <<"-">> ELSE <<>>)
        \o nat_text(x.num \div x.den)
        \o (IF x.num % x.den = 0 THEN <<>> ELSE <<".">> \o frac_text(x.num % x.den, x.den))

\* char::escape_debug on the code points of the model
escape_debug(c) ==
    CASE c \in {"DQ", "BSLASH"} -> <<"BSLASH", c>>
      [] c = "NL" -> <<"BSLASH", "n">>
      [] c = "TAB" -> <<"BSLASH", "t">>
      [] OTHER -> <<c>>

RECURSIVE flat(_)
flat(ss) == IF ss = <<>> THEN <<>> ELSE Head(ss) \o flat(Tail(ss))

\* `{str:?}`
debug_text(str) == <<"DQ">> \o flat([i \in 1..Len(str) |-> escape_debug(str[i])]) \o <<"DQ">>

RECURSIVE join(_, _)
join(ss, sep) ==
    IF ss = <<>> THEN <<>>
    ELSE IF Len(ss) = 1 THEN ss[1]
    ELSE ss[1] \o sep \o join(Tail(ss), sep)

\* Display for Value (lines 87-106).  The Function body renders as the one opaque
\* code point "SYNTAX"; an Object entry's Pointer renders as the Value behind it.
RECURSIVE to_string(_)
to_string(v) ==
    CASE v.k = "Boolean" -> bool_text(v.b)
      [] v.k = "String" -> debug_text(v.s)
      [] v.k = "Number" -> number_text(v)
      [] v.k = "Object" ->
            <<"o", "b", "j", "e", "c", "t">>
              \o (IF v.m = <<>> THEN <<>>
                  ELSE <<" ", "{", " ">>
                         \o join([i \in 1..Len(v.m) |->
                                    to_string(v.m[i][1]) \o <<":", " ">> \o debug_text(to_string(v.m[i][2]))],
                                 <<",", " ">>)
                         \o <<" ", "}">>)
      [] v.k = "Function" ->
            <<"[">> \o join([i \in 1..Len(v.args) |-> debug_text(v.args[i])], <<",", " ">>)
                \o <<"]", " ", "-", ">", " ", "SYNTAX">>
      [] v.k = "Keyword" -> keyword_text(v.w)

-----------------------------------------------------------------------------
(* Value::bool (lines 309-337) *)

bool(v) ==
    CASE v.k = "Boolean" -> v.b
      [] v.k = "Number" ->
            IF ~v.neg /\ v.num >= v.den THEN "True"
            ELSE IF v.neg \/ v.num = 0 THEN "False"
            ELSE "Maybe"
      [] v.k = "String" -> IF v.s = <<>> THEN "False" ELSE "True"
      [] v.k = "Object" -> IF v.m = <<>> THEN "False" ELSE "True"
      [] OTHER -> "Maybe"

-----------------------------------------------------------------------------
(* The operators: Add, Sub, Mul, Div, Rem, Neg, BitAnd, BitOr (lines 138-262) *)

\* the Number a Boolean stands for in Add
bool_number(b) ==
    CASE b = "False" -> VNumber(FALSE, 0, 1)
      [] b = "Maybe" -> VNumber(FALSE, 1, 2)
      [] b = "True" -> VNumber(FALSE, 1, 1)

\* mutation of add: the String arm is missing
add_no_string_arm(l, r) ==
    CASE l.k = "Number" /\ r.k = "Number" -> fadd(l, r)
      [] l.k = "Boolean" /\ r.k = "Number" -> fadd(bool_number(l.b), r)
      [] l.k = "Number" /\ r.k = "Boolean" -> fadd(bool_number(r.b), l)
      [] OTHER -> default

add(l, r) ==
    CASE l.k = "Number" /\ r.k = "Number" -> fadd(l, r)
      [] l.k = "Boolean" /\ r.k = "Number" -> fadd(bool_number(l.b), r)
      [] l.k = "Number" /\ r.k = "Boolean" -> fadd(bool_number(r.b), l)
      [] l.k = "String" -> VString(l.s \o to_string(r))
      [] OTHER -> default

sub(l, r) ==
    CASE l.k = "Number" /\ r.k = "Number" -> fsub(l, r)
      [] OTHER -> default

\* UTF-8 length of a code point
utf8_len(c) ==
    CASE c \in {"EACUTE", "POUND", "YEN", "LAQUO", "RAQUO"} -> 2
      [] c \in {"EURO", "EN", "RUBLE", "LOW9", "LDQUO"} -> 3
      [] OTHER -> 1

\* str::len: the length in bytes
RECURSIVE str_len(_)
str_len(str) == IF str = <<>> THEN 0 ELSE utf8_len(Head(str)) + str_len(Tail(str))

\* the code points of &str[0..portion], when portion is a char boundary
slice_to(str, portion) ==
    LET cuts == {j \in 0..Len(str) : str_len(SubSeq(str, 1, j)) = portion}
    IN  IF cuts = {} THEN [ok |-> FALSE, s |-> <<>>]
        ELSE [ok |-> TRUE, s |-> SubSeq(str, 1, CHOOSE j \in cuts : TRUE)]

\* str::repeat
RECURSIVE repeat(_, _)
repeat(str, n) == IF n = 0 THEN <<>> ELSE str \o repeat(str, n - 1)

\* `.chars().rev().collect()`
reverse(str) == [i \in 1..Len(str) |-> str[Len(str) + 1 - i]]

\* mutation of portion: the product rounded to the nearest integer (f64::round)
portion_rounded(x, len) == ((x.num % x.den) * len * 2 + x.den) \div (2 * x.den)

\* `((num.abs() - num.abs().floor()) * str.len() as f64) as usize`: the cast truncates
portion(x, len) == ((x.num % x.den) * len) \div x.den

mul(l, r) ==
    CASE l.k = "Number" /\ r.k = "Number" -> fmul(l, r)
      [] l.k = "String" /\ r.k = "Number" ->
            LET str_buf == repeat(l.s, r.num \div r.den)
                p == portion(r, str_len(l.s))
                head == slice_to(l.s, p)
                whole == IF p > 0 THEN str_buf \o head.s ELSE str_buf
            IN  IF p > 0 /\ ~head.ok THEN Panic
                ELSE VString(IF r.neg THEN reverse(whole) ELSE whole)
      [] OTHER -> default

div(l, r) ==
    CASE l.k = "Number" /\ r.k = "Number" -> IF is_zero(r) THEN default ELSE fdiv(l, r)
      [] OTHER -> default

rem(l, r) ==
    CASE l.k = "Number" /\ r.k = "Number" -> IF is_zero(r) THEN default ELSE frem(l, r)
      [] OTHER -> default

neg(v) ==
    CASE v.k = "Boolean" ->
            VBool(CASE v.b = "False" -> "True" [] v.b = "True" -> "False" [] v.b = "Maybe" -> "Maybe")
      [] v.k = "Number" -> fneg(v)
      [] v.k = "String" -> VString(reverse(v.s))
      [] OTHER -> default

bitand(l, r) ==
    IF bool(l) = "False" \/ bool(r) = "False" THEN from_bool(FALSE)
    ELSE IF bool(l) = "True" /\ bool(r) = "True" THEN from_bool(TRUE)
    ELSE VBool("Maybe")

bitor(l, r) ==
    IF bool(l) = "True" \/ bool(r) = "True" THEN from_bool(TRUE)
    ELSE IF bool(l) = "False" /\ bool(r) = "False" THEN from_bool(FALSE)
    ELSE VBool("Maybe")

-----------------------------------------------------------------------------
(* Value::eq (lines 265-307) *)

\* str::to_lowercase on the code points of the model
to_lowercase(str) ==
    [i \in 1..Len(str) |->
        CASE str[i] = "A" -> "a" [] str[i] = "B" -> "b" [] str[i] = "C" -> "c" [] OTHER -> str[i]]

\* str::trim
RECURSIVE trim_start(_)
trim_start(str) ==
    IF str # <<>> /\ is_whitespace(Head(str)) THEN trim_start(Tail(str)) ELSE str

trim(str) == reverse(trim_start(reverse(trim_start(str))))

is_digit(c) == \E d \in 1..10 : Digit[d] = c

RECURSIVE digits_val(_)
digits_val(ds) ==
    IF ds = <<>> THEN 0
    ELSE digits_val(SubSeq(ds, 1, Len(ds) - 1)) * 10
           + ((CHOOSE d \in 1..10 : Digit[d] = ds[Len(ds)]) - 1)

RECURSIVE pow10(_)
pow10(n) == IF n = 0 THEN 1 ELSE 10 * pow10(n - 1)

\* str::parse::<f64> on the decimal forms [+-]digits[.digits] (the exponent,
\* "inf" and "nan" forms need letters the modelled operands never spell)
parse_f64(str) ==
    LET signed_text == str # <<>> /\ str[1] \in {"-", "+"}
        body == IF signed_text THEN Tail(str) ELSE str
        dots == {i \in 1..Len(body) : body[i] = "."}
        dot == IF dots = {} THEN Len(body) + 1 ELSE CHOOSE i \in dots : TRUE
        ip == SubSeq(body, 1, dot - 1)
        fp == SubSeq(body, dot + 1, Len(body))
        ok == /\ Cardinality(dots) <= 1
              /\ \A i \in 1..Len(body) : is_digit(body[i]) \/ body[i] = "."
              /\ \E i \in 1..Len(body) : is_digit(body[i])
    IN  IF ok
        THEN [ok |-> TRUE,
              val |-> VNumber(str[1] = "-", digits_val(ip) * pow10(Len(fp)) + digits_val(fp),
                              pow10(Len(fp)))]
        ELSE [ok |-> FALSE, val |-> VNumber(FALSE, 0, 1)]

\* BTreeMap::get
get(m, key) ==
    LET hits == {i \in 1..Len(m) : m[i][1] = key}
    IN  IF hits = {} THEN [some |-> FALSE, v |-> default]
        ELSE [some |-> TRUE, v |-> m[CHOOSE i \in hits : TRUE][2]]

\* precision 1: `(&Boolean(bool), rhs) | (rhs, &Boolean(bool))` with `rhs.bool() == bool`
coerces(l, r) ==
    IF l.k = "Boolean" THEN bool(r) = l.b
    ELSE IF r.k = "Boolean" THEN bool(l) = r.b
    ELSE FALSE

\* `x == y || (precision == 1 && (x / y).ln().abs() < 0.1)`
near(x, y, p) == feq(x, y) \/ (p = 1 /\ ln_ratio_small(x, y))

RECURSIVE eq(_, _, _)

\* the fallback `match (self, rhs)` of eq (lines 284-306)
eq_match(l, r, p) ==
    CASE l.k = "Number" /\ r.k = "Number" -> from_bool(near(l, r, p))
      [] l.k = "String" /\ r.k = "String" -> from_bool(l.s = r.s)
      [] l.k = "Keyword" /\ r.k = "Keyword" -> from_bool(l.w = r.w)
      [] l.k = "String" /\ r.k = "Number" ->
            LET q == parse_f64(l.s) IN from_bool(q.ok /\ near(r, q.val, p))
      [] l.k = "Number" /\ r.k = "String" ->
            LET q == parse_f64(r.s) IN from_bool(q.ok /\ near(l, q.val, p))
      [] l.k = "Object" /\ r.k = "Object" ->
            from_bool(
                /\ ~\E i \in 1..Len(l.m) :
                      LET g == get(r.m, l.m[i][1])
                      IN  ~g.some \/ eq(g.v, l.m[i][2], p) = from_bool(FALSE)
                /\ ~\E i \in 1..Len(r.m) : ~get(l.m, r.m[i][1]).some)
      [] OTHER -> from_bool(FALSE)

eq(l, r, p) ==
    IF p <= 2 /\ bool(l) = "False" /\ bool(r) = "False" THEN from_bool(TRUE)
    ELSE IF p = 1 /\ coerces(l, r) THEN from_bool(TRUE)
    ELSE IF p = 2 THEN from_bool(to_string(l) = to_string(r))
    ELSE IF p = 1 /\ trim(to_lowercase(to_string(l))) = trim(to_lowercase(to_string(r)))
    THEN from_bool(TRUE)
    ELSE eq_match(l, r, p)

-----------------------------------------------------------------------------
(* Applying one operator to a pair of operands *)

\* largest precision passed to eq
MaxPrecision == 3

StrAlphabet == {"a", "b", "c", "EACUTE"}

Strings ==
    {VString(t) : t \in SeqUpTo(StrAlphabet, MaxStr)}
      \cup {VString(<<"5">>), VString(<<"1", ".", "5">>), VString(<<"A">>), VString(<<" ", "a">>)}

ShortStrings == {v \in Strings : Len(v.s) <= 1 \/ v.s[1] \notin StrAlphabet}

Numbers ==
    {VNumber(TRUE, 3, 2), VNumber(TRUE, 0, 1), VNumber(FALSE, 0, 1), VNumber(FALSE, 1, 2),
     VNumber(FALSE, 1, 1), VNumber(FALSE, 3, 2), VNumber(FALSE, 5, 1), VNumber(FALSE, 10, 1),
     VNumber(FALSE, 11, 1)}

Others ==
    {VBool(b) : b \in {"True", "False", "Maybe"}}
      \cup Numbers
      \cup {default, VObject(<< <<VString(<<"a">>), VNumber(FALSE, 1, 1)>> >>)}
      \cup {VFunction(<<>>), VFunction(<< <<"a">> >>)}
      \cup {VKeyword(w) : w \in Keywords}

Values == Strings \cup Others

InitVal ==
    /\ lhs \in Values
    /\ rhs \in ShortStrings \cup Others \cup {lhs}
    /\ precision = 0
    /\ vop = "none"
    /\ result = NoValue
    /\ source = <<>>
    /\ chars = <<>>
    /\ token_stream = <<>>
    /\ pc = "idle"
    /\ overflow_checks = FALSE

DoAdd ==
    /\ vop = "none"
    /\ vop' = "add"
    /\ result' = add(lhs, rhs)
    /\ UNCHANGED <<lhs, rhs, precision, lexvars>>

DoSub ==
    /\ vop = "none"
    /\ vop' = "sub"
    /\ result' = sub(lhs, rhs)
    /\ UNCHANGED <<lhs, rhs, precision, lexvars>>

DoMul ==
    /\ vop = "none"
    /\ vop' = "mul"
    /\ result' = mul(lhs, rhs)
    /\ UNCHANGED <<lhs, rhs, precision, lexvars>>

DoDiv ==
    /\ vop = "none"
    /\ vop' = "div"
    /\ result' = div(lhs, rhs)
    /\ UNCHANGED <<lhs, rhs, precision, lexvars>>

DoRem ==
    /\ vop = "none"
    /\ vop' = "rem"
    /\ result' = rem(lhs, rhs)
    /\ UNCHANGED <<lhs, rhs, precision, lexvars>>

DoNeg ==
    /\ vop = "none"
    /\ vop' = "neg"
    /\ result' = neg(lhs)
    /\ UNCHANGED <<lhs, rhs, precision, lexvars>>

DoBitAnd ==
    /\ vop = "none"
    /\ vop' = "bitand"
    /\ result' = bitand(lhs, rhs)
    /\ UNCHANGED <<lhs, rhs, precision, lexvars>>

DoBitOr ==
    /\ vop = "none"
    /\ vop' = "bitor"
    /\ result' = bitor(lhs, rhs)
    /\ UNCHANGED <<lhs, rhs, precision, lexvars>>

DoEq ==
    /\ vop = "none"
    /\ \E p \in 0..MaxPrecision :
          /\ precision' = p
          /\ result' = eq(lhs, rhs, p)
    /\ vop' = "eq"
    /\ UNCHANGED <<lhs, rhs, lexvars>>

NextVal == DoAdd \/ DoSub \/ DoMul \/ DoDiv \/ DoRem \/ DoNeg \/ DoBitAnd \/ DoBitOr \/ DoEq

SpecVal == InitVal /\ [][NextVal]_vars

-----------------------------------------------------------------------------
(* Properties of the Value operators *)

IsAscii(str) == \A i \in 1..Len(str) : utf8_len(str[i]) = 1

\* s repeated n times
RECURSIVE copies(_, _)
copies(str, n) == IF n = 0 THEN <<>> ELSE copies(str, n - 1) \o str

backwards(str) == [i \in 1..Len(str) |-> str[Len(str) - i + 1]]

\* round((|n| - floor(|n|)) * len), halves away from zero
rounded_part(x, len) == (2 * (x.num % x.den) * len + x.den) \div (2 * x.den)

\* floor((|n| - floor(|n|)) * len)
truncated_part(x, len) == ((x.num % x.den) * len) \div x.den

times(str, x, part) ==
    LET t == copies(str, x.num \div x.den) \o SubSeq(str, 1, part)
    IN  VString(IF x.neg THEN backwards(t) ELSE t)

Abc == <<"a", "b", "c">>

MinusOneAndHalf == VNumber(TRUE, 3, 2)

ValueKinds == {"Boolean", "String", "Number", "Object", "Function", "Keyword"}

\* C7: every operator (+, -, *, /, %, unary -, &, |) returns a Value for operands
\* of any variant and content, and never panics.
C7_OperatorsTotal ==
    vop \in {"add", "sub", "mul", "div", "rem", "neg", "bitand", "bitor"}
    => (result # Panic /\ result.k \in ValueKinds)

EmptyString == VString(<<>>)

Five == VNumber(FALSE, 5, 1)

\* C8 as stated: String("") + Number(5.0) is the default empty Object, not the
\* String "5".
C8_EmptyStringPlusFiveIsDefault ==
    (vop = "add" /\ lhs = EmptyString /\ rhs = Five) => result = VObject(<<>>)

\* C8 amended: String("") + Number(5.0) is the String "5" (a String left operand
\* is concatenated with the rendering of the right operand), and a String plus a
\* Number is never the empty Object.
C8_EmptyStringPlusFiveIsFive ==
    /\ (vop = "add" /\ lhs = EmptyString /\ rhs = Five) => result = VString(<<"5">>)
    /\ (vop = "add" /\ lhs.k = "String" /\ rhs.k = "Number")
       => (result.k = "String" /\ SubSeq(result.s, 1, Len(lhs.s)) = lhs.s
           /\ Len(result.s) > Len(lhs.s))

C8_Witness == vop = "add" /\ lhs = EmptyString /\ rhs = Five /\ result = VString(<<"5">>)

\* C10: eq is reflexive at every precision: eq(v, v, p) is Boolean True for every
\* Boolean, String, Number and Keyword v and every p in {0, 1, 2}.
C10_EqReflexive ==
    (vop = "eq" /\ precision \in {0, 1, 2} /\ rhs = lhs
        /\ lhs.k \in {"Boolean", "String", "Number", "Keyword"})
    => result = VBool("True")

=============================================================================
